---- MODULE Spec2Model ----
(***************************************************************************)
(* A model of the lunatic process runtime core:                            *)
(*   - HashMapId, the incremental-ID resource table (src/state.rs);        *)
(*   - State, the per-process state (src/state.rs);                        *)
(*   - the lunatic::distributed host functions                             *)
(*     (crates/lunatic-distributed-api/src/lib.rs);                        *)
(*   - the wasi_snapshot_preview1 shim (src/wasi/api.rs).                  *)
(*                                                                         *)
(* Every host call has one of three outcomes, kept apart throughout:       *)
(*   "ok"    the function returned to the guest,                           *)
(*   "trap"  the function returned Err(Trap),                              *)
(*   "panic" the Rust code panicked (panic!, unwrap on Err, a failed       *)
(*           slice-length assertion); the unwinding leaves the host call   *)
(*           without a Trap value.                                         *)
(*                                                                         *)
(* Widths: id_seed is a u64 and nodes_count casts to u32.  Neither 2^64    *)
(* nor 2^32 steps are within the bounds explored here, so the counters are *)
(* modelled as naturals below those limits.                                *)
(***************************************************************************)
EXTENDS Integers, Sequences, FiniteSets, TLC

VARIABLES
    table,        \* one HashMapId<T>: [id_seed, store]
    hist,         \* history of add/remove calls on `table` with their results
    distributed,  \* Result<&DistributedProcessState>: None or Some(state)
    memory,       \* the guest's linear memory, a sequence of bytes (index 1 = address 0)
    stdin,        \* bytes pending on the process-wide standard input
    stdout,       \* bytes written so far to the process-wide standard output
    stderr,       \* bytes written so far to the process-wide standard error
    ARG,          \* lazy_static ARG : WasiEnv, the captured arguments
    ENV,          \* lazy_static ENV : WasiEnv, the captured environment
    guest,        \* position of the guest program driving the *_sizes_get/*_get protocol
    inst,         \* process id -> State
    sched,        \* cooperative scheduler: [running, ready]
    snap,         \* process id -> State as it was when the process yielded (or None)
    ret           \* the last call: its name, arguments, outcome and pre-state

vars == <<table, hist, distributed, memory, stdin, stdout, stderr, ARG, ENV,
          guest, inst, sched, snap, ret>>

tableVars == <<table, hist>>
nodeVars  == <<distributed>>
fdVars    == <<stdin, stdout, stderr>>
argVars   == <<ARG, ENV, guest>>
instVars  == <<inst, sched, snap>>

-----------------------------------------------------------------------------
(* Option<T> *)

None == [some |-> FALSE]

Some(x) == [some |-> TRUE, val |-> x]

(* Values of variables a specification does not use. *)
Idle == "idle"

NoCall == [op |-> "none"]

-----------------------------------------------------------------------------
(* HashMapId<T>  (src/state.rs 59-91)                                        *)

\* Bound on the number of add/remove calls explored on one table.
MaxOps == 3

\* The items stored; two distinguishable items expose aliasing.
Items == {"a", "b"}

\* HashMap::new()
EmptyStore == [k \in {} |-> "a"]

\* HashMap::insert(id, item)
Insert(store, id, item) ==
    [k \in (DOMAIN store) \cup {id} |-> IF k = id THEN item ELSE store[k]]

\* HashMap::remove(&id), the map left behind
Without(store, id) == [k \in (DOMAIN store) \ {id} |-> store[k]]

\* HashMap::get(&id)
Lookup(store, id) == IF id \in DOMAIN store THEN Some(store[id]) ELSE None

HashMapId_new == [id_seed |-> 0, store |-> EmptyStore]

\* A plausible bug: the counter is not advanced.
add_no_incr(t, item) ==
    [table |-> [id_seed |-> t.id_seed, store |-> Insert(t.store, t.id_seed, item)],
     id    |-> t.id_seed]

\* let id = self.id_seed; self.store.insert(id, item); self.id_seed += 1; id
add(t, item) ==
    [table |-> [id_seed |-> t.id_seed + 1, store |-> Insert(t.store, t.id_seed, item)],
     id    |-> t.id_seed]

\* A plausible bug: the item is returned but left in the map.
remove_keeps(t, id) == [table |-> t, out |-> Lookup(t.store, id)]

\* self.store.remove(&id)
remove(t, id) ==
    [table |-> [id_seed |-> t.id_seed, store |-> Without(t.store, id)],
     out   |-> Lookup(t.store, id)]

\* self.store.get_mut(&id)
get_mut(t, id) == Lookup(t.store, id)

\* self.store.get(&id)
get(t, id) == Lookup(t.store, id)

\* The ids a caller may pass: every id issued within the bound and some never issued.
IdRange == 0 .. MaxOps + 1

TableIdle == /\ table = HashMapId_new
             /\ hist = <<>>

Add(item) ==
    /\ Len(hist) < MaxOps
    /\ LET r == add(table, item) IN
        /\ table' = r.table
        /\ hist' = Append(hist, [op |-> "add", item |-> item, id |-> r.id])
        /\ ret' = [op |-> "add", item |-> item, outcome |-> "ok", id |-> r.id]
    /\ UNCHANGED <<nodeVars, memory, fdVars, argVars, instVars>>

Remove(id) ==
    /\ Len(hist) < MaxOps
    /\ LET r == remove(table, id) IN
        /\ table' = r.table
        /\ hist' = Append(hist, [op |-> "remove", id |-> id, out |-> r.out])
        /\ ret' = [op |-> "remove", id |-> id, outcome |-> "ok", out |-> r.out]
    /\ UNCHANGED <<nodeVars, memory, fdVars, argVars, instVars>>

Get(id) ==
    /\ ret' = [op |-> "get", id |-> id, outcome |-> "ok", out |-> get(table, id)]
    /\ UNCHANGED <<tableVars, nodeVars, memory, fdVars, argVars, instVars>>

GetMut(id) ==
    /\ ret' = [op |-> "get_mut", id |-> id, outcome |-> "ok", out |-> get_mut(table, id)]
    /\ UNCHANGED <<tableVars, nodeVars, memory, fdVars, argVars, instVars>>

-----------------------------------------------------------------------------
(* Values the other specifications' variables take while unused.            *)

NodesIdle == distributed = None

MemIdle == memory = <<>>

FdIdle == /\ stdin = <<>>
          /\ stdout = <<>>
          /\ stderr = <<>>

ArgIdle == /\ ARG = <<>>
           /\ ENV = <<>>
           /\ guest = [st |-> Idle]

InstIdle == /\ inst = <<>>
            /\ sched = Idle
            /\ snap = <<>>

-----------------------------------------------------------------------------
(* Specification of one resource table under add/remove/get/get_mut.        *)

InitTable ==
    /\ table = HashMapId_new
    /\ hist = <<>>
    /\ ret = NoCall
    /\ NodesIdle /\ MemIdle /\ FdIdle /\ ArgIdle /\ InstIdle

NextTable ==
    \/ \E item \in Items : Add(item)
    \/ \E id \in IdRange : Remove(id)
    \/ \E id \in IdRange : Get(id)
    \/ \E id \in IdRange : GetMut(id)

SpecTable == InitTable /\ [][NextTable]_vars

\* The item the history says id names: that of the last add that returned id,
\* unless a remove(id) came after it.
LastAdd(h, id) ==
    LET S == {k \in 1 .. Len(h) : h[k].op = "add" /\ h[k].id = id}
    IN  IF S = {} THEN 0 ELSE CHOOSE k \in S : \A j \in S : j <= k

Expected(h, id) ==
    LET k == LastAdd(h, id)
    IN  IF k = 0 THEN None
        ELSE IF \E j \in (k + 1) .. Len(h) : h[j].op = "remove" /\ h[j].id = id
             THEN None
             ELSE Some(h[k].item)

\* C1: get(id) and get_mut(id) return an item iff id was returned by an earlier
\* add with no remove(id) since, and then exactly the item passed to that add;
\* otherwise None.
C1_Retrievable ==
    /\ \A id \in IdRange :
        /\ get(table, id) = Expected(hist, id)
        /\ get_mut(table, id) = Expected(hist, id)
    /\ ret.op \in {"get", "get_mut"} => ret.out = Expected(hist, ret.id)

\* A get of an id that was issued, removed, and is now gone, while a later id
\* still resolves to its own item.
C1_Witness ==
    /\ ret.op = "get"
    /\ ret.out = None
    /\ \E k \in 1 .. Len(hist) : hist[k].op = "add" /\ hist[k].id = ret.id
    /\ \E k \in 1 .. Len(hist) :
        hist[k].op = "remove" /\ hist[k].id = ret.id /\ hist[k].out # None
    /\ \E id \in IdRange : get(table, id) # None

\* C2: every add succeeds and returns an id strictly greater than every id
\* returned before, whatever removes intervene; an id that was removed is never
\* returned again.
C2_FreshIds ==
    /\ \A i, j \in 1 .. Len(hist) :
        (i < j /\ hist[i].op = "add" /\ hist[j].op = "add") => hist[i].id < hist[j].id
    /\ \A i, j \in 1 .. Len(hist) :
        (i < j /\ hist[i].op = "remove" /\ hist[i].out # None /\ hist[j].op = "add")
            => hist[j].id # hist[i].id
    /\ \A i \in 1 .. Len(hist) : hist[i].op = "add" => hist[i].id < table.id_seed
    /\ ret.op = "add" => ret.outcome = "ok"

\* An add, a successful remove of the id it returned, and a later add.
C2_Witness ==
    \E i, j, k \in 1 .. Len(hist) :
        /\ i < j /\ j < k
        /\ hist[i].op = "add"
        /\ hist[j].op = "remove" /\ hist[j].id = hist[i].id /\ hist[j].out # None
        /\ hist[k].op = "add"
        /\ ret.op = "add"

-----------------------------------------------------------------------------
(* lunatic::distributed host functions                                       *)
(* (crates/lunatic-distributed-api/src/lib.rs)                               *)

\* Bound on the number of nodes in the registry.
MaxNodes == 2

\* Bound on the size of the guest memory, in bytes.
MaxMem == 18

\* Bound on the element count a guest passes to get_nodes.
MaxLen == 3

\* Node identifiers; 258 has two non-zero bytes.
NodeIds == {1, 2, 258}

\* The bytes a guest fills its memory with.
FillBytes == {0, 255}

\* std::mem::size_of::<u64>()
SizeOfU64 == 8

\* The "copied" status get_nodes returns.
Copied == 2

\* Byte i (1 = least significant) of n.
RECURSIVE ByteAt(_, _)
ByteAt(n, i) == IF i = 1 THEN n % 256 ELSE ByteAt(n \div 256, i - 1)

\* The bytes of one u64 in memory order (little-endian host).
U64Bytes(n) == [i \in 1 .. SizeOfU64 |-> ByteAt(n, i)]

\* The unsigned integer a group of bytes holds (little-endian).
RECURSIVE LeValue(_)
LeValue(bs) ==
    IF bs = <<>> THEN 0 ELSE Head(bs) + 256 * LeValue(Tail(bs))

\* node_ids.align_to::<u8>().1 : the vector's bytes, all of them (u8 has
\* alignment 1, so the prefix and the suffix are empty).
RECURSIVE align_to_u8(_)
align_to_u8(ids) ==
    IF ids = <<>> THEN <<>> ELSE U64Bytes(Head(ids)) \o align_to_u8(Tail(ids))

\* d.control.node_count(): the number of nodes the registry knows.
node_count(control) ==
    Cardinality({control.nodes[i] : i \in DOMAIN control.nodes})

\* d.control.node_ids(): the registry's identifiers in its enumeration order.
node_ids(control) == control.nodes

\* d.node_id(): the registry's self entry.
DistributedProcessState_node_id(d) == d.node_id

\* slice.get_mut(a..b) is Some iff a <= b <= len
InBounds(mem, a, b) == a <= b /\ b <= Len(mem)

\* dst.copy_from_slice(src) on mem[a..b], for Len(src) = b - a
CopyInto(mem, a, src) ==
    [i \in 1 .. Len(mem) |->
        IF a < i /\ i <= a + Len(src) THEN src[i - a] ELSE mem[i]]

\* A plausible bug: the default for "no capability" is not 0.
nodes_count_default1(dist) ==
    IF dist.some THEN node_count(dist.val.control) ELSE 1

\* caller.data().distributed().map(|d| d.control.node_count()).unwrap_or(0)
nodes_count(dist) ==
    IF dist.some THEN node_count(dist.val.control) ELSE 0

\* A plausible bug: the bytes that fit are copied before the range is checked.
get_nodes_copy_first(mem, dist, nodes_ptr, nodes_len) ==
    LET ids == IF dist.some THEN node_ids(dist.val.control) ELSE <<>>
        src == align_to_u8(ids)
        end == nodes_ptr + SizeOfU64 * nodes_len
        fit == IF Len(mem) - nodes_ptr < 0 THEN 0
               ELSE IF Len(mem) - nodes_ptr < Len(src) THEN Len(mem) - nodes_ptr
               ELSE Len(src)
        wr  == CopyInto(mem, nodes_ptr, SubSeq(src, 1, fit))
    IN  IF ~InBounds(mem, nodes_ptr, end)
        THEN [outcome |-> "trap", memory |-> wr]
        ELSE IF end - nodes_ptr # Len(src)
        THEN [outcome |-> "panic", memory |-> wr]
        ELSE [outcome |-> "ok", memory |-> wr, status |-> Copied]

\* get_nodes: the node list (empty without the capability), then the single
\* range check get_mut(ptr .. ptr + 8*len) (None -> trap), then
\* copy_from_slice, which panics unless source and destination have the same
\* length, then Ok(2).
get_nodes(mem, dist, nodes_ptr, nodes_len) ==
    LET ids == IF dist.some THEN node_ids(dist.val.control) ELSE <<>>
        src == align_to_u8(ids)
        end == nodes_ptr + SizeOfU64 * nodes_len
    IN  IF ~InBounds(mem, nodes_ptr, end)
        THEN [outcome |-> "trap", memory |-> mem]
        ELSE IF end - nodes_ptr # Len(src)
        THEN [outcome |-> "panic", memory |-> mem]
        ELSE [outcome |-> "ok", memory |-> CopyInto(mem, nodes_ptr, src),
              status |-> Copied]

\* A plausible bug: the default for "no capability" is not 0.
node_id_default1(dist) ==
    IF dist.some THEN DistributedProcessState_node_id(dist.val) ELSE 1

\* caller.data().distributed().as_ref().map(|d| d.node_id()).unwrap_or(0)
node_id(dist) ==
    IF dist.some THEN DistributedProcessState_node_id(dist.val) ELSE 0

NodesCount ==
    /\ ret' = [op |-> "nodes_count", outcome |-> "ok", out |-> nodes_count(distributed)]
    /\ UNCHANGED <<tableVars, nodeVars, memory, fdVars, argVars, instVars>>

GetNodes(nodes_ptr, nodes_len) ==
    /\ guest.st = "ready"
    /\ guest' = [st |-> "called"]
    /\ LET r == get_nodes(memory, distributed, nodes_ptr, nodes_len) IN
        /\ memory' = r.memory
        /\ ret' = [op |-> "get_nodes", ptr |-> nodes_ptr, len |-> nodes_len,
                   outcome |-> r.outcome,
                   status |-> IF r.outcome = "ok" THEN r.status ELSE -1]
    /\ UNCHANGED <<tableVars, nodeVars, fdVars, ARG, ENV, instVars>>

\* The guest overwrites its whole memory with one byte before its next call.
GuestFill(b) ==
    /\ guest.st = "called"
    /\ guest' = [st |-> "ready"]
    /\ memory' = [i \in 1 .. Len(memory) |-> b]
    /\ ret' = [op |-> "fill", byte |-> b]
    /\ UNCHANGED <<tableVars, nodeVars, fdVars, ARG, ENV, instVars>>

NodeId ==
    /\ ret' = [op |-> "node_id", outcome |-> "ok", out |-> node_id(distributed)]
    /\ UNCHANGED <<tableVars, nodeVars, memory, fdVars, argVars, instVars>>

\* The registries explored: every enumeration of at most MaxNodes distinct nodes.
Registries ==
    {s \in UNION {[1 .. n -> NodeIds] : n \in 0 .. MaxNodes} :
        \A i, j \in DOMAIN s : i # j => s[i] # s[j]}

InitNodes ==
    /\ distributed \in {None} \cup
          {Some([node_id |-> n, control |-> [nodes |-> s]]) :
              n \in NodeIds, s \in Registries}
    /\ \E size \in {MaxMem - 2, MaxMem} : memory = [i \in 1 .. size |-> 0]
    /\ ret = NoCall
    /\ ARG = <<>> /\ ENV = <<>> /\ guest = [st |-> "ready"]
    /\ TableIdle /\ FdIdle /\ InstIdle

NextNodes ==
    \/ NodesCount
    \/ \E p \in 0 .. MaxMem + 1, n \in 0 .. MaxLen : GetNodes(p, n)
    \/ NodeId
    \/ \E b \in FillBytes : GuestFill(b)

SpecNodes == InitNodes /\ [][NextNodes]_vars

\* The registry's identifiers as get_nodes sees them.
Listing == IF distributed.some THEN node_ids(distributed.val.control) ELSE <<>>

Min(a, b) == IF a < b THEN a ELSE b

\* The k-th 8-byte group at address p.
Group(mem, p, k) ==
    LeValue(SubSeq(mem, p + SizeOfU64 * (k - 1) + 1, p + SizeOfU64 * k))

\* C3: get_nodes(ptr, len) traps iff [ptr, ptr + 8*len) is not inside the
\* memory; in every other case the call completes, the first
\* min(len, node count) groups at ptr are the registry's identifiers in
\* enumeration order, and the status is 2.
C3_GetNodesContract ==
    ret.op = "get_nodes" =>
        LET inside == ret.ptr + SizeOfU64 * ret.len <= Len(memory) IN
        /\ ret.outcome = "trap" <=> ~inside
        /\ inside =>
            /\ ret.outcome = "ok"
            /\ ret.status = 2
            /\ \A k \in 1 .. Min(ret.len, Len(Listing)) :
                Group(memory, ret.ptr, k) = Listing[k]

\* C4: a get_nodes call that does not return the success status leaves the
\* guest memory, the node registry and the resource tables as they were.
C4_NoPartialWrite ==
    [][(ret'.op = "get_nodes" /\ ret'.outcome # "ok")
          => (memory' = memory /\ distributed' = distributed
              /\ table' = table /\ inst' = inst)]_vars

\* A call with a destination that starts inside the memory and runs out of it,
\* for a registry that has identifiers to copy.
C4_Witness ==
    /\ ret.op = "get_nodes"
    /\ ret.outcome = "trap"
    /\ ret.len > 0
    /\ ret.ptr < Len(memory)
    /\ Len(Listing) > 0

\* C5: nodes_count() is the length of the list node_ids returns in the same
\* state, and 0 without the distributed capability; the call changes nothing.
C5_NodesCount ==
    /\ [](/\ ret.op = "nodes_count" =>
            /\ ret.out = Len(Listing)
            /\ ~distributed.some => ret.out = 0
          /\ nodes_count(distributed) = Len(Listing))
    /\ [][ret'.op = "nodes_count"
            => UNCHANGED <<distributed, memory, table, inst, guest>>]_vars

C5_Witness ==
    /\ ret.op = "nodes_count"
    /\ distributed.some
    /\ ret.out = MaxNodes

-----------------------------------------------------------------------------
(* wasi_snapshot_preview1: fd_write, fd_read  (src/wasi/api.rs 50-76)        *)
(*                                                                           *)
(* The standard streams are modelled when they accept or deliver every byte  *)
(* asked for; an I/O error of the host stream (unwrap on Err) is not.        *)

\* Bound on the descriptors a guest passes (0 .. MaxFd).
MaxFd == 3

\* Bound on the bytes a standard stream holds.
MaxStream == 4

\* WASI_ESUCCESS (wasi/types.rs)
WASI_ESUCCESS == 0

\* WASI_EINVAL (wasi/types.rs)
WASI_EINVAL == 28

\* The vectors of a call: sequences of byte buffers.
IoVecs == { <<>>, << <<97>> >>, << <<97, 98>>, <<99, 100>> >>, << <<>>, <<101>> >> }

\* The buffer capacities of a vectored read.
IoCaps == { <<>>, <<1>>, <<2, 1>> }

RECURSIVE Concat(_)
Concat(bufs) == IF bufs = <<>> THEN <<>> ELSE Head(bufs) \o Concat(Tail(bufs))

RECURSIVE Sum(_)
Sum(ns) == IF ns = <<>> THEN 0 ELSE Head(ns) + Sum(Tail(ns))

\* Write::write_vectored on a standard stream: every buffer, in order.
write_vectored(stream, bufs) ==
    [stream |-> stream \o Concat(bufs), written |-> Len(Concat(bufs))]

\* Read::read_vectored on standard input: as many pending bytes as fit.
read_vectored(stream, caps) ==
    LET n == IF Sum(caps) < Len(stream) THEN Sum(caps) ELSE Len(stream)
    IN  [stream |-> SubSeq(stream, n + 1, Len(stream)),
         data |-> SubSeq(stream, 1, n), written |-> n]

\* match fd { 0 => (WASI_EINVAL, 0), 1 => stdout, 2 => stderr, _ => panic! }
fd_write(fd, ciovs, out, err) ==
    IF fd = 0 THEN
        [outcome |-> "ok", status |-> WASI_EINVAL, n |-> 0, stdout |-> out, stderr |-> err]
    ELSE IF fd = 1 THEN
        LET w == write_vectored(out, ciovs) IN
        [outcome |-> "ok", status |-> WASI_ESUCCESS, n |-> w.written,
         stdout |-> w.stream, stderr |-> err]
    ELSE IF fd = 2 THEN
        LET w == write_vectored(err, ciovs) IN
        [outcome |-> "ok", status |-> WASI_ESUCCESS, n |-> w.written,
         stdout |-> out, stderr |-> w.stream]
    ELSE
        [outcome |-> "panic", status |-> -1, n |-> 0, stdout |-> out, stderr |-> err]

\* match fd { 1 | 2 => (WASI_EINVAL, 0), 0 => stdin, _ => panic! }
fd_read(fd, iovs, in) ==
    IF fd \in {1, 2} THEN
        [outcome |-> "ok", status |-> WASI_EINVAL, n |-> 0, stdin |-> in, data |-> <<>>]
    ELSE IF fd = 0 THEN
        LET r == read_vectored(in, iovs) IN
        [outcome |-> "ok", status |-> WASI_ESUCCESS, n |-> r.written,
         stdin |-> r.stream, data |-> r.data]
    ELSE
        [outcome |-> "panic", status |-> -1, n |-> 0, stdin |-> in, data |-> <<>>]

Streams == [stdin |-> stdin, stdout |-> stdout, stderr |-> stderr]

FdWrite(fd, ciovs) ==
    /\ Len(stdout) + Len(Concat(ciovs)) <= MaxStream
    /\ Len(stderr) + Len(Concat(ciovs)) <= MaxStream
    /\ LET r == fd_write(fd, ciovs, stdout, stderr) IN
        /\ stdout' = r.stdout
        /\ stderr' = r.stderr
        /\ ret' = [op |-> "fd_write", fd |-> fd, vecs |-> ciovs,
                   outcome |-> r.outcome, status |-> r.status, n |-> r.n,
                   pre |-> Streams]
    /\ UNCHANGED <<tableVars, nodeVars, memory, stdin, argVars, instVars>>

FdRead(fd, iovs) ==
    /\ LET r == fd_read(fd, iovs, stdin) IN
        /\ stdin' = r.stdin
        /\ ret' = [op |-> "fd_read", fd |-> fd, caps |-> iovs,
                   outcome |-> r.outcome, status |-> r.status, n |-> r.n,
                   data |-> r.data, pre |-> Streams]
    /\ UNCHANGED <<tableVars, nodeVars, memory, stdout, stderr, argVars, instVars>>

InitFd ==
    /\ stdin \in {<<>>, <<120>>, <<120, 121, 122>>, <<120, 121, 122, 119>>}
    /\ Len(stdin) <= MaxStream
    /\ stdout = <<>>
    /\ stderr = <<>>
    /\ ret = NoCall
    /\ TableIdle /\ NodesIdle /\ MemIdle /\ ArgIdle /\ InstIdle

NextFd ==
    \/ \E fd \in 0 .. MaxFd, ciovs \in IoVecs : FdWrite(fd, ciovs)
    \/ \E fd \in 0 .. MaxFd, iovs \in IoCaps : FdRead(fd, iovs)

SpecFd == InitFd /\ [][NextFd]_vars

\* C7: the descriptor table of the shim.  fd_write: 0 is invalid with 0 bytes
\* and untouched streams, 1 and 2 append the vectors' bytes to standard
\* output/error and return success with the byte count; fd_read: 1 and 2 are
\* invalid with 0 bytes, 0 reads standard input; any other descriptor makes
\* either call trap, without a status and without touching a stream.
C7_DescriptorTable ==
    /\ ret.op = "fd_write" =>
        /\ ret.fd = 0 =>
            /\ ret.outcome = "ok" /\ ret.status = WASI_EINVAL /\ ret.n = 0
            /\ Streams = ret.pre
        /\ ret.fd = 1 =>
            /\ ret.outcome = "ok" /\ ret.status = WASI_ESUCCESS
            /\ ret.n = Len(Concat(ret.vecs))
            /\ stdout = ret.pre.stdout \o Concat(ret.vecs)
            /\ stderr = ret.pre.stderr /\ stdin = ret.pre.stdin
        /\ ret.fd = 2 =>
            /\ ret.outcome = "ok" /\ ret.status = WASI_ESUCCESS
            /\ ret.n = Len(Concat(ret.vecs))
            /\ stderr = ret.pre.stderr \o Concat(ret.vecs)
            /\ stdout = ret.pre.stdout /\ stdin = ret.pre.stdin
        /\ ret.fd \notin {0, 1, 2} => (ret.outcome = "trap" /\ Streams = ret.pre)
    /\ ret.op = "fd_read" =>
        /\ ret.fd \in {1, 2} =>
            /\ ret.outcome = "ok" /\ ret.status = WASI_EINVAL /\ ret.n = 0
            /\ Streams = ret.pre
        /\ ret.fd = 0 =>
            /\ ret.outcome = "ok" /\ ret.status = WASI_ESUCCESS
            /\ ret.pre.stdin = ret.data \o stdin
            /\ ret.n = Len(ret.data)
            /\ stdout = ret.pre.stdout /\ stderr = ret.pre.stderr
        /\ ret.fd \notin {0, 1, 2} => (ret.outcome = "trap" /\ Streams = ret.pre)

-----------------------------------------------------------------------------
(* wasi_snapshot_preview1: args_sizes_get, args_get, environ_sizes_get,      *)
(* environ_get  (src/wasi/api.rs 105-143)                                    *)
(*                                                                           *)
(* WasiEnv is defined in wasi/types.rs and Pointer in the uptown_funk crate. *)
(* The call sites here fix their shape: copy_slice yields                    *)
(* Err(Trap), Ok(None) or Ok(Some(next)), next yields None or Some(next),    *)
(* and the two None cases are reported as "Reached end of the ... buffer".   *)
(* A cursor is therefore None when it has reached the end of the memory the  *)
(* pointer can address, and a copy that does not fit is Err.                 *)

\* size_of a guest pointer and of a u32 (wasm32)
PtrSize == 4

\* WasiStatus::Success
Success == 0

\* The bytes of one u32 in memory order.
U32Bytes(n) == [i \in 1 .. PtrSize |-> ByteAt(n, i)]

\* WasiEnv::args: each argument followed by a NUL.
WasiEnv_args(args) == [i \in 1 .. Len(args) |-> args[i] \o <<0>>]

\* WasiEnv::env_vars: each variable as key=value followed by a NUL.
WasiEnv_env_vars(kvs) ==
    [i \in 1 .. Len(kvs) |-> kvs[i][1] \o <<61>> \o kvs[i][2] \o <<0>>]

\* WasiEnv::len
WasiEnv_len(env) == Len(env)

\* WasiEnv::total_bytes
WasiEnv_total_bytes(env) == Sum([i \in 1 .. Len(env) |-> Len(env[i])])

\* Pointer::set: the value's bytes at the pointer.
Pointer_set(mem, loc, bytes) == CopyInto(mem, loc, bytes)

\* Pointer::copy_slice: Err when the slice does not fit, else the bytes are
\* copied and the cursor after them is returned, None when it is the end.
Pointer_copy_slice(mem, loc, slice) ==
    IF loc + Len(slice) > Len(mem)
    THEN [res |-> "err", memory |-> mem, loc |-> loc]
    ELSE [res |-> IF loc + Len(slice) = Len(mem) THEN "none" ELSE "some",
          memory |-> CopyInto(mem, loc, slice), loc |-> loc + Len(slice)]

\* Pointer::next: the cursor one element on, None when it is the end.
Pointer_next(mem, loc, size) ==
    IF loc + size >= Len(mem) THEN None ELSE Some(loc + size)

\* var_count.set(&ARG.len()); total_bytes.set(&ARG.total_bytes()); Success
args_sizes_get(arg, mem, var_count, total_bytes) ==
    LET m1 == Pointer_set(mem, var_count, U32Bytes(WasiEnv_len(arg)))
        m2 == Pointer_set(m1, total_bytes, U32Bytes(WasiEnv_total_bytes(arg)))
    IN  [outcome |-> "ok", status |-> Success, memory |-> m2]

\* for kv in ARG.iter() { args.set(&args_buf);
\*     args_buf = args_buf.copy_slice(&kv)?.ok_or_else(trap)?;
\*     args = args.next().ok_or_else(trap)?; }  Success
RECURSIVE args_get(_, _, _, _)
args_get(arg, mem, args, args_buf) ==
    IF arg = <<>> THEN [outcome |-> "ok", status |-> Success, memory |-> mem]
    ELSE
        LET m1 == Pointer_set(mem, args, U32Bytes(args_buf))
            c  == Pointer_copy_slice(m1, args_buf, Head(arg))
            n  == Pointer_next(c.memory, args, PtrSize)
        IN  IF c.res = "err" THEN [outcome |-> "trap", status |-> -1, memory |-> m1]
            ELSE IF c.res = "none"
            THEN [outcome |-> "trap", status |-> -1, memory |-> c.memory]
            ELSE IF ~n.some
            THEN [outcome |-> "trap", status |-> -1, memory |-> c.memory]
            ELSE args_get(Tail(arg), c.memory, n.val, c.loc)

\* var_count.set(&ENV.len()); total_bytes.set(&ENV.total_bytes()); Success
environ_sizes_get(env, mem, var_count, total_bytes) ==
    LET m1 == Pointer_set(mem, var_count, U32Bytes(WasiEnv_len(env)))
        m2 == Pointer_set(m1, total_bytes, U32Bytes(WasiEnv_total_bytes(env)))
    IN  [outcome |-> "ok", status |-> Success, memory |-> m2]

\* for kv in ENV.iter() { environ.set(&environ_buf);
\*     environ_buf = environ_buf.copy_slice(&kv)?.ok_or_else(trap)?;
\*     environ = environ.next().ok_or_else(trap)?; }  Success
RECURSIVE environ_get(_, _, _, _)
environ_get(env, mem, environ, environ_buf) ==
    IF env = <<>> THEN [outcome |-> "ok", status |-> Success, memory |-> mem]
    ELSE
        LET m1 == Pointer_set(mem, environ, U32Bytes(environ_buf))
            c  == Pointer_copy_slice(m1, environ_buf, Head(env))
            n  == Pointer_next(c.memory, environ, PtrSize)
        IN  IF c.res = "err" THEN [outcome |-> "trap", status |-> -1, memory |-> m1]
            ELSE IF c.res = "none"
            THEN [outcome |-> "trap", status |-> -1, memory |-> c.memory]
            ELSE IF ~n.some
            THEN [outcome |-> "trap", status |-> -1, memory |-> c.memory]
            ELSE environ_get(Tail(env), c.memory, n.val, c.loc)

\* The u32 the guest reads at an address.
ReadU32(mem, loc) == LeValue(SubSeq(mem, loc + 1, loc + PtrSize))

\* Where a guest keeps the two u32 results of a *_sizes_get call.
SizeSlots(mem) == {<<0, PtrSize>>, <<PtrSize, 0>>,
                   <<Len(mem) - 2 * PtrSize, Len(mem) - PtrSize>>}

\* The guest asks for the sizes and reads the two results from its memory.
ArgsSizesGet(var_count, total_bytes) ==
    /\ guest.st = "ready"
    /\ LET r == args_sizes_get(ARG, memory, var_count, total_bytes) IN
        /\ memory' = r.memory
        /\ guest' = [st |-> "sized", kind |-> "args", count |-> ReadU32(r.memory, var_count),
                     total |-> ReadU32(r.memory, total_bytes)]
        /\ ret' = [op |-> "args_sizes_get", outcome |-> r.outcome, status |-> r.status]
    /\ UNCHANGED <<tableVars, nodeVars, fdVars, ARG, ENV, instVars>>

EnvironSizesGet(var_count, total_bytes) ==
    /\ guest.st = "ready"
    /\ LET r == environ_sizes_get(ENV, memory, var_count, total_bytes) IN
        /\ memory' = r.memory
        /\ guest' = [st |-> "sized", kind |-> "environ", count |-> ReadU32(r.memory, var_count),
                     total |-> ReadU32(r.memory, total_bytes)]
        /\ ret' = [op |-> "environ_sizes_get", outcome |-> r.outcome, status |-> r.status]
    /\ UNCHANGED <<tableVars, nodeVars, fdVars, ARG, ENV, instVars>>

\* The guest passes a pointer array of `count` slots that lies in its memory and
\* an arena that starts anywhere in it.
ArgsGet(args, args_buf) ==
    /\ guest.st = "sized"
    /\ guest.kind = "args"
    /\ args + PtrSize * guest.count <= Len(memory)
    /\ LET r == args_get(ARG, memory, args, args_buf) IN
        /\ memory' = r.memory
        /\ ret' = [op |-> "args_get", ptrs |-> args, buf |-> args_buf,
                   count |-> guest.count, total |-> guest.total,
                   outcome |-> r.outcome, status |-> r.status]
    /\ guest' = [st |-> "called"]
    /\ UNCHANGED <<tableVars, nodeVars, fdVars, ARG, ENV, instVars>>

EnvironGet(environ, environ_buf) ==
    /\ guest.st = "sized"
    /\ guest.kind = "environ"
    /\ environ + PtrSize * guest.count <= Len(memory)
    /\ LET r == environ_get(ENV, memory, environ, environ_buf) IN
        /\ memory' = r.memory
        /\ ret' = [op |-> "environ_get", ptrs |-> environ, buf |-> environ_buf,
                   count |-> guest.count, total |-> guest.total,
                   outcome |-> r.outcome, status |-> r.status]
    /\ guest' = [st |-> "called"]
    /\ UNCHANGED <<tableVars, nodeVars, fdVars, ARG, ENV, instVars>>

\* The snapshots explored (std::env::args(), std::env::vars()).
ArgLists == { <<>>, << <<97>> >>, << <<97>>, <<98, 99>> >> }

VarLists == { <<>>, << <<<<107>>, <<118>>>> >> }

InitArgs ==
    /\ ARG \in {WasiEnv_args(a) : a \in ArgLists}
    /\ ENV \in {WasiEnv_env_vars(v) : v \in VarLists}
    /\ \E size \in {MaxMem - 2, MaxMem} : memory = [i \in 1 .. size |-> 0]
    /\ guest = [st |-> "ready"]
    /\ ret = NoCall
    /\ TableIdle /\ NodesIdle /\ FdIdle /\ InstIdle

NextArgs ==
    \/ \E sl \in SizeSlots(memory) : ArgsSizesGet(sl[1], sl[2])
    \/ \E sl \in SizeSlots(memory) : EnvironSizesGet(sl[1], sl[2])
    \/ \E a \in 0 .. MaxMem, b \in 0 .. MaxMem : ArgsGet(a, b)
    \/ \E a \in 0 .. MaxMem, b \in 0 .. MaxMem : EnvironGet(a, b)
    \/ \E b \in FillBytes : GuestFill(b)

SpecArgs == InitArgs /\ [][NextArgs]_vars

\* The entries the last *_get call walked.
Walked == IF ret.op = "args_get" THEN ARG ELSE ENV

\* Offset of entry i in the arena.
Offset(env, i) == Sum([k \in 1 .. i - 1 |-> Len(env[k])])

\* The guest's buffers are exactly as large as reported, lie in its memory
\* and do not overlap.
ExactBuffers ==
    /\ ret.ptrs + PtrSize * ret.count <= Len(memory)
    /\ ret.buf + ret.total <= Len(memory)
    /\ \/ ret.ptrs + PtrSize * ret.count <= ret.buf
       \/ ret.buf + ret.total <= ret.ptrs

\* C8: with a pointer array of exactly the reported count of slots and an arena
\* of exactly the reported total bytes, wherever they lie in memory, *_get
\* succeeds, the i-th pointer addresses the i-th entry's bytes with its
\* terminator, the count and the total are those of the entries, and the call
\* traps only if a cursor would run past the end of its buffer.
C8_RoundTrip ==
    (ret.op \in {"args_get", "environ_get"} /\ ExactBuffers) =>
        /\ ret.outcome = "ok"
        /\ ret.status = Success
        /\ ret.count = Len(Walked)
        /\ ret.total = Sum([i \in 1 .. Len(Walked) |-> Len(Walked[i])])
        /\ \A i \in 1 .. Len(Walked) :
            LET p == ReadU32(memory, ret.ptrs + PtrSize * (i - 1)) IN
            /\ p = ret.buf + Offset(Walked, i)
            /\ SubSeq(memory, p + 1, p + Len(Walked[i])) = Walked[i]
            /\ Walked[i][Len(Walked[i])] = 0

-----------------------------------------------------------------------------
(* State, the per-process state (src/state.rs 16-57), and sched_yield        *)
(* (src/wasi/api.rs 38-41), under a cooperative scheduler.                   *)
(*                                                                           *)
(* The mailbox is the receiving end of an unbounded multi-producer channel:  *)
(* its contents are the messages sent and not yet received.  Sending,        *)
(* receiving, module loading and the scheduler itself live in other modules  *)
(* of the runtime and follow its design document.                            *)

\* Bound on the ids issued over all the tables of all processes.
MaxAdds == 1

\* Bound on the messages waiting in all mailboxes.
MaxMail == 1

\* The processes sharing the worker.
Procs == {1, 2}

Msgs == {"m"}

Modules == {<<0, 97>>, <<0, 98>>}

Kinds == {"configs", "environments", "modules", "processes"}

\* Resources::default()
Resources_default ==
    [configs |-> HashMapId_new, environments |-> HashMapId_new,
     modules |-> HashMapId_new, processes |-> HashMapId_new]

\* A plausible bug: the slot is not initialised empty.
State_new_loaded(mailbox) ==
    [mailbox |-> mailbox, errors |-> HashMapId_new, resources |-> Resources_default,
     wasi |-> "inherit_stdio", module_loaded |-> Some(<<0>>)]

\* State::new(mailbox)
State_new(mailbox) ==
    [mailbox |-> mailbox, errors |-> HashMapId_new, resources |-> Resources_default,
     wasi |-> "inherit_stdio", module_loaded |-> None]

\* A plausible bug: the yield drops the errors the process has captured.
sched_yield_resets(state) ==
    [state |-> [state EXCEPT !.errors = HashMapId_new], out |-> 0]

\* smol::future::yield_now().await; 0     (&self is the field-less WasiState)
sched_yield(state) == [state |-> state, out |-> 0]

\* The ids issued so far by the tables of one process.
Issued(st) ==
    st.errors.id_seed + st.resources.configs.id_seed
        + st.resources.environments.id_seed + st.resources.modules.id_seed
        + st.resources.processes.id_seed

\* What of a State a yield is said to preserve.
Observable(st) ==
    [errors |-> st.errors, resources |-> st.resources,
     module_loaded |-> st.module_loaded, mailbox |-> st.mailbox]

Running(p) == sched.running = p

IssuedAll == Issued(inst[1]) + Issued(inst[2])

Waiting == Len(inst[1].mailbox) + Len(inst[2].mailbox)

\* state.errors.add(item)
ErrorsAdd(p, item) ==
    /\ Running(p)
    /\ IssuedAll < MaxAdds
    /\ LET r == add(inst[p].errors, item) IN
        /\ inst' = [inst EXCEPT ![p].errors = r.table]
        /\ ret' = [op |-> "errors.add", proc |-> p, outcome |-> "ok", id |-> r.id]
    /\ UNCHANGED <<tableVars, nodeVars, memory, fdVars, argVars, sched, snap>>

\* state.resources.<kind>.add(item)
ResourceAdd(p, kind, item) ==
    /\ Running(p)
    /\ IssuedAll < MaxAdds
    /\ LET r == add(inst[p].resources[kind], item) IN
        /\ inst' = [inst EXCEPT ![p].resources[kind] = r.table]
        /\ ret' = [op |-> "resources.add", proc |-> p, outcome |-> "ok", id |-> r.id]
    /\ UNCHANGED <<tableVars, nodeVars, memory, fdVars, argVars, sched, snap>>

\* state.resources.<kind>.remove(id)
ResourceRemove(p, kind, id) ==
    /\ Running(p)
    /\ id \in DOMAIN inst[p].resources[kind].store
    /\ LET r == remove(inst[p].resources[kind], id) IN
        /\ inst' = [inst EXCEPT ![p].resources[kind] = r.table]
        /\ ret' = [op |-> "resources.remove", proc |-> p, outcome |-> "ok", out |-> r.out]
    /\ UNCHANGED <<tableVars, nodeVars, memory, fdVars, argVars, sched, snap>>

\* A running process sends a message to a mailbox (its own or another's).
Send(p, q, m) ==
    /\ Running(p)
    /\ Waiting < MaxMail
    /\ inst' = [inst EXCEPT ![q].mailbox = Append(@, m)]
    /\ ret' = [op |-> "send", proc |-> p, to |-> q, outcome |-> "ok"]
    /\ UNCHANGED <<tableVars, nodeVars, memory, fdVars, argVars, sched, snap>>

\* A running process takes the first message of its mailbox.
Receive(p) ==
    /\ Running(p)
    /\ inst[p].mailbox # <<>>
    /\ inst' = [inst EXCEPT ![p].mailbox = Tail(@)]
    /\ ret' = [op |-> "receive", proc |-> p, outcome |-> "ok",
               out |-> Head(inst[p].mailbox)]
    /\ UNCHANGED <<tableVars, nodeVars, memory, fdVars, argVars, sched, snap>>

\* A module load begins: the raw bytes go to the slot, unless a load is under
\* way, which is reported as a violated precondition.
LoadModule(p, bytes) ==
    /\ Running(p)
    /\ IF inst[p].module_loaded.some
       THEN /\ inst' = inst
            /\ ret' = [op |-> "load", proc |-> p, outcome |-> "error",
                       bytes |-> bytes, pre |-> inst[p].module_loaded]
       ELSE /\ inst' = [inst EXCEPT ![p].module_loaded = Some(bytes)]
            /\ ret' = [op |-> "load", proc |-> p, outcome |-> "ok",
                       bytes |-> bytes, pre |-> inst[p].module_loaded]
    /\ UNCHANGED <<tableVars, nodeVars, memory, fdVars, argVars, sched, snap>>

\* The compilation step consumes the slot.
CompileModule(p) ==
    /\ Running(p)
    /\ inst[p].module_loaded.some
    /\ inst' = [inst EXCEPT ![p].module_loaded = None]
    /\ ret' = [op |-> "compile", proc |-> p, outcome |-> "ok"]
    /\ UNCHANGED <<tableVars, nodeVars, memory, fdVars, argVars, sched, snap>>

\* sched_yield, up to the suspension: the process goes to the back of the
\* ready queue; what it held is remembered for the comparison on resumption.
SchedYield(p) ==
    /\ Running(p)
    /\ LET r == sched_yield(inst[p]) IN
        /\ inst' = [inst EXCEPT ![p] = r.state]
        /\ snap' = [snap EXCEPT ![p] = Some([pre |-> Observable(inst[p]), out |-> r.out])]
    /\ sched' = [running |-> 0, ready |-> Append(sched.ready, p)]
    /\ ret' = [op |-> "yielded", proc |-> p]
    /\ UNCHANGED <<tableVars, nodeVars, memory, fdVars, argVars>>

\* The worker takes the first ready process: a process that had yielded
\* returns from sched_yield, a new one starts.
Dispatch ==
    /\ sched.running = 0
    /\ sched.ready # <<>>
    /\ LET p == Head(sched.ready) IN
        /\ sched' = [running |-> p, ready |-> Tail(sched.ready)]
        /\ snap' = [snap EXCEPT ![p] = None]
        /\ ret' = IF snap[p].some
                  THEN [op |-> "sched_yield", proc |-> p, outcome |-> "ok",
                        out |-> snap[p].val.out, pre |-> snap[p].val.pre]
                  ELSE [op |-> "start", proc |-> p]
    /\ UNCHANGED <<tableVars, nodeVars, memory, fdVars, argVars, inst>>

InitInst ==
    /\ inst = [p \in Procs |-> State_new(<<>>)]
    /\ sched = [running |-> 0, ready |-> <<1, 2>>]
    /\ snap = [p \in Procs |-> None]
    /\ ret = NoCall
    /\ TableIdle /\ NodesIdle /\ MemIdle /\ FdIdle /\ ArgIdle

NextInst ==
    \/ \E p \in Procs : ErrorsAdd(p, "e")
    \/ \E p \in Procs, kind \in Kinds : ResourceAdd(p, kind, "r")
    \/ \E p \in Procs, kind \in Kinds, id \in 0 .. MaxAdds : ResourceRemove(p, kind, id)
    \/ \E p, q \in Procs, m \in Msgs : Send(p, q, m)
    \/ \E p \in Procs : Receive(p)
    \/ \E p \in Procs, bytes \in Modules : LoadModule(p, bytes)
    \/ \E p \in Procs : CompileModule(p)
    \/ \E p \in Procs : SchedYield(p)
    \/ Dispatch

SpecInst == InitInst /\ [][NextInst]_vars

IsPrefix(s, t) == Len(s) <= Len(t) /\ SubSeq(t, 1, Len(s)) = s

====
